---- MODULE Spec2Model ----
(***************************************************************************)
(* Model of src/projects.py: a Streamlit dashboard that loads a Google     *)
(* Sheet as CSV (cached for 300 seconds), locates the header row, cleans   *)
(* and aggregates the rows by project type (process_data) and shows the    *)
(* completion KPIs.                                                        *)
(*                                                                         *)
(* Text is modelled as a sequence of one-character strings, a spreadsheet  *)
(* cell as a record [na, s] (na = the pandas missing value NaN), and a     *)
(* float as a record [k, n, d]: a finite rational n/d, an infinity or NaN. *)
(***************************************************************************)
EXTENDS Integers, Sequences, FiniteSets, TLC

VARIABLES now, cache, pc, selected_sheet_name, raw_dataframe, dataframe,
          df_processed, kpi_data, selected_types, totals, reports,
          fetched, loaded_at, last_clear, type_cells, type_names

vars == <<now, cache, pc, selected_sheet_name, raw_dataframe, dataframe,
          df_processed, kpi_data, selected_types, totals, reports,
          fetched, loaded_at, last_clear, type_cells, type_names>>

(***************************************************************************)
(* Bounds of the model.                                                    *)
(***************************************************************************)
MaxLen == 3

MaxRows == 3

MaxTime == 450

TickStep == 150

(***************************************************************************)
(* Characters and the Python str methods the script uses.                  *)
(***************************************************************************)
LowerLetters == <<"a","b","c","d","e","f","g","h","i","j","k","l","m",
                  "n","o","p","q","r","s","t","u","v","w","x","y","z">>

UpperLetters == <<"A","B","C","D","E","F","G","H","I","J","K","L","M",
                  "N","O","P","Q","R","S","T","U","V","W","X","Y","Z">>

Digits == <<"0","1","2","3","4","5","6","7","8","9">>

AsciiOrder == <<" ", "+", ",", "-", "/">> \o Digits \o <<":">> \o UpperLetters \o LowerLetters

OrdOf == [c \in {AsciiOrder[i] : i \in 1..Len(AsciiOrder)} |->
             CHOOSE i \in 1..Len(AsciiOrder) : AsciiOrder[i] = c]

Ord(c) == OrdOf[c]

LowerSet == {LowerLetters[i] : i \in 1..26}

UpperSet == {UpperLetters[i] : i \in 1..26}

DigitSet == {Digits[i] : i \in 1..10}

LowerOf == [c \in UpperSet |-> LowerLetters[CHOOSE i \in 1..26 : UpperLetters[i] = c]]

UpperOf == [c \in LowerSet |-> UpperLetters[CHOOSE i \in 1..26 : LowerLetters[i] = c]]

IsLowerChar(c) == c \in LowerSet

IsUpperChar(c) == c \in UpperSet

IsCased(c) == IsLowerChar(c) \/ IsUpperChar(c)

IsSpace(c) == c = " "

IsDigit(c) == c \in DigitSet

ToLowerChar(c) == IF IsUpperChar(c) THEN LowerOf[c] ELSE c

ToUpperChar(c) == IF IsLowerChar(c) THEN UpperOf[c] ELSE c

StrLower(s) == [i \in 1..Len(s) |-> ToLowerChar(s[i])]

\* str.replace(ch, '', regex=False): every occurrence of ch is removed.
StrRemoveAll(s, ch) == SelectSeq(s, LAMBDA c : c # ch)

\* str.strip(): leading and trailing whitespace removed.
StrStrip(s) ==
    LET keep == {i \in 1..Len(s) : ~IsSpace(s[i])}
    IN  IF keep = {} THEN <<>>
        ELSE LET lo == CHOOSE i \in keep : \A j \in keep : i <= j
                 hi == CHOOSE i \in keep : \A j \in keep : j <= i
             IN  SubSeq(s, lo, hi)

\* str.title(): a cased character is upper-cased when the character before it
\* is not cased, lower-cased otherwise.
StrTitle(s) ==
    [i \in 1..Len(s) |->
        IF ~IsCased(s[i]) THEN s[i]
        ELSE IF i > 1 /\ IsCased(s[i-1]) THEN ToLowerChar(s[i])
        ELSE ToUpperChar(s[i])]

\* str.contains(pat, case=False): pat occurs somewhere, ignoring case
\* (pat holds no regular-expression metacharacter).
StrContainsNoCase(s, pat) ==
    \E i \in 1..(Len(s) - Len(pat) + 1) :
        \A j \in 1..Len(pat) : ToLowerChar(s[i+j-1]) = ToLowerChar(pat[j])

\* Python's ordering of str, used by sorted() and by groupby's sorted keys.
StrLess(a, b) ==
    \E i \in 1..(Len(b)) :
        /\ i <= Len(a) + 1
        /\ \A j \in 1..(i-1) : a[j] = b[j]
        /\ \/ i = Len(a) + 1
           \/ (i <= Len(a) /\ Ord(a[i]) < Ord(b[i]))

(***************************************************************************)
(* Cells.                                                                  *)
(***************************************************************************)
NaNCell == [na |-> TRUE, s |-> <<>>]

StrCell(s) == [na |-> FALSE, s |-> s]

\* The category name of a Type cell that survived dropna.
NormalizeTypeNoTitle(s) == StrStrip(StrRemoveAll(s, ":"))

NormalizeTypeStripFirst(s) == StrTitle(StrRemoveAll(StrStrip(s), ":"))

NormalizeType(s) == StrTitle(StrStrip(StrRemoveAll(s, ":")))

(***************************************************************************)
(* Floats: a finite rational n/d (d > 0, lowest terms), +/- infinity       *)
(* (n = 1 or -1), or NaN.                                                  *)
(***************************************************************************)
Abs(n) == IF n < 0 THEN -n ELSE n

Sgn(n) == IF n < 0 THEN -1 ELSE IF n > 0 THEN 1 ELSE 0

RECURSIVE GCD(_, _)
GCD(a, b) == IF b = 0 THEN a ELSE GCD(b, a % b)

Rat(n, d) == LET g == GCD(Abs(n), d)
             IN  [k |-> "fin", n |-> n \div g, d |-> d \div g]

Fin(n) == [k |-> "fin", n |-> n, d |-> 1]

Inf(sign) == [k |-> "inf", n |-> sign, d |-> 1]

NaN == [k |-> "nan", n |-> 0, d |-> 1]

NumAdd(a, b) ==
    IF a.k = "nan" \/ b.k = "nan" THEN NaN
    ELSE IF a.k = "inf" /\ b.k = "inf" THEN (IF a.n = b.n THEN a ELSE NaN)
    ELSE IF a.k = "inf" THEN a
    ELSE IF b.k = "inf" THEN b
    ELSE Rat(a.n * b.d + b.n * a.d, a.d * b.d)

NumNeg(a) == [a EXCEPT !.n = -a.n]

NumSub(a, b) == NumAdd(a, NumNeg(b))

NumLess(a, b) ==
    IF a.k = "nan" \/ b.k = "nan" THEN FALSE
    ELSE IF a.k = "inf" THEN a.n = -1 /\ ~(b.k = "inf" /\ b.n = -1)
    ELSE IF b.k = "inf" THEN b.n = 1
    ELSE a.n * b.d < b.n * a.d

\* a / b * 100 in IEEE arithmetic (rounding aside).
NumDivTimes100(a, b) ==
    IF a.k = "nan" \/ b.k = "nan" THEN NaN
    ELSE IF b.k = "inf" THEN (IF a.k = "inf" THEN NaN ELSE Fin(0))
    ELSE IF b.n = 0 THEN (IF a.n = 0 THEN NaN ELSE Inf(Sgn(a.n)))
    ELSE IF a.k = "inf" THEN Inf(a.n * Sgn(b.n))
    ELSE Rat(100 * a.n * b.d * Sgn(b.n), a.d * Abs(b.n))

\* Series.clip(lo, hi): NaN stays NaN.
NumClip(x, lo, hi) ==
    IF x.k = "nan" THEN x
    ELSE IF NumLess(x, lo) THEN lo
    ELSE IF NumLess(hi, x) THEN hi
    ELSE x

(***************************************************************************)
(* pandas: read_csv, astype(str), to_numeric, fillna.                      *)
(***************************************************************************)
\* Texts that read_csv turns into the missing value by default.
NAValues == { <<>>, <<"N","/","A">>, <<"N","A">>, <<"n","/","a">>,
              <<"N","a","N">>, <<"n","a","n">>, <<"-","N","a","N">>,
              <<"-","n","a","n">>, <<"N","U","L","L">>, <<"n","u","l","l">> }

ReadCsvCell(text) == IF text \in NAValues THEN NaNCell ELSE StrCell(text)

\* pd.read_csv(url, header=None) of a sheet whose export is the grid `texts`.
ReadCsv(texts) ==
    [ok |-> TRUE,
     rows |-> [i \in 1..Len(texts) |->
                 [j \in 1..Len(texts[i]) |-> ReadCsvCell(texts[i][j])]]]

NoneFrame == [ok |-> FALSE, rows |-> <<>>]

AsTypeStr(cell) == IF cell.na THEN <<"n","a","n">> ELSE cell.s

DigitVal(c) == Ord(c) - Ord("0")

RECURSIVE DigitsVal(_)
DigitsVal(s) == IF s = <<>> THEN 0
                ELSE DigitsVal(SubSeq(s, 1, Len(s)-1)) * 10 + DigitVal(s[Len(s)])

\* pd.to_numeric(..., errors='coerce') of one string: an optionally signed run
\* of digits is that integer, an optionally signed "inf"/"infinity" (any case)
\* is that infinity, anything else (also "nan" and the empty string) is NaN.
ToNumeric(s) ==
    LET signed == s # <<>> /\ s[1] \in {"-", "+"}
        sign   == IF signed /\ s[1] = "-" THEN -1 ELSE 1
        body   == IF signed THEN Tail(s) ELSE s
    IN  IF body # <<>> /\ \A i \in 1..Len(body) : IsDigit(body[i])
        THEN Fin(sign * DigitsVal(body))
        ELSE IF StrLower(body) \in { <<"i","n","f">>,
                                     <<"i","n","f","i","n","i","t","y">> }
        THEN Inf(sign)
        ELSE NaN

FillNa0(x) == IF x.k = "nan" THEN Fin(0) ELSE x

\* Lines 69-70 for one cell of the Design or As Built column.
CleanNumber(cell) == FillNa0(ToNumeric(StrRemoveAll(AsTypeStr(cell), ",")))

(***************************************************************************)
(* Data frames: [ok, columns, rows]; ok = FALSE stands for None.           *)
(***************************************************************************)
TypeName == <<"T","y","p","e">>

DesignName == <<"D","e","s","i","g","n">>

AsBuiltName == <<"A","s"," ","B","u","i","l","t">>

UnnamedColumn == <<"U","n","n","a","m","e","d"," ","C","o","l","u","m","n">>

LastEdited == <<"L","a","s","t"," ","E","d","i","t","e","d">>

required_cols == <<TypeName, DesignName, AsBuiltName>>

NoFrame == [ok |-> FALSE, columns |-> <<>>, rows |-> <<>>]

\* The elements of seq whose index is in keep, in order.
Pick(seq, keep) ==
    LET F[i \in 0..Len(seq)] ==
            IF i = 0 THEN <<>>
            ELSE IF i \in keep THEN Append(F[i-1], seq[i]) ELSE F[i-1]
    IN  F[Len(seq)]

\* Lines 108-124: the first row whose first cell is exactly 'Type' gives the
\* column names (blank cells named 'Unnamed Column'); the rows below it are
\* the data; of columns with the same name only the first is kept.  No such
\* row: IndexError, caught, the data frame is None.
HeaderRows(raw) ==
    {i \in 1..Len(raw.rows) :
        /\ Len(raw.rows[i]) >= 1
        /\ ~raw.rows[i][1].na
        /\ raw.rows[i][1].s = TypeName}

ResolveHeader(raw) ==
    IF HeaderRows(raw) = {} THEN NoFrame
    ELSE LET h      == CHOOSE i \in HeaderRows(raw) : \A j \in HeaderRows(raw) : i <= j
             hrow   == raw.rows[h]
             header == [j \in 1..Len(hrow) |->
                           IF hrow[j].na THEN UnnamedColumn ELSE hrow[j].s]
             keep   == {j \in 1..Len(header) :
                           \A j2 \in 1..(j-1) : header[j2] # header[j]}
         IN  [ok |-> TRUE,
              columns |-> Pick(header, keep),
              rows |-> [i \in 1..(Len(raw.rows) - h) |->
                          Pick(raw.rows[h + i], keep)]]

(***************************************************************************)
(* process_data (lines 51-83).                                             *)
(***************************************************************************)
StrippedColumns(df) == [j \in 1..Len(df.columns) |-> StrStrip(df.columns[j])]

ColumnCount(cols, name) == Cardinality({j \in 1..Len(cols) : cols[j] = name})

ColumnIndex(cols, name) == CHOOSE j \in 1..Len(cols) : cols[j] = name

\* Line 58: the required columns that are absent, in the order of required_cols.
MissingColumnsFirstOnly(df) ==
    LET m == SelectSeq(required_cols,
                       LAMBDA c : ColumnCount(StrippedColumns(df), c) = 0)
    IN  IF m = <<>> THEN m ELSE <<m[1]>>

MissingColumns(df) ==
    SelectSeq(required_cols, LAMBDA c : ColumnCount(StrippedColumns(df), c) = 0)

\* Lines 62-70: rows without a Type are dropped, the Type is normalised,
\* "Last Edited" rows are dropped, Design and As Built are made numeric.
\* index is the row label of the data frame, which pandas keeps.
CleanRows(df) ==
    LET cols    == StrippedColumns(df)
        t       == ColumnIndex(cols, TypeName)
        d       == ColumnIndex(cols, DesignName)
        b       == ColumnIndex(cols, AsBuiltName)
        all     == [i \in 1..Len(df.rows) |->
                       [index |-> i, Type |-> df.rows[i][t],
                        Design |-> df.rows[i][d], AsBuilt |-> df.rows[i][b]]]
        typed   == SelectSeq(all, LAMBDA r : ~r.Type.na)
        named   == [i \in 1..Len(typed) |->
                       [typed[i] EXCEPT !.Type = NormalizeType(typed[i].Type.s)]]
        data    == SelectSeq(named,
                       LAMBDA r : ~StrContainsNoCase(r.Type, LastEdited))
    IN  [i \in 1..Len(data) |->
            [index   |-> data[i].index,
             Type    |-> data[i].Type,
             Design  |-> CleanNumber(data[i].Design),
             AsBuilt |-> CleanNumber(data[i].AsBuilt)]]

RECURSIVE SortKeys(_)
SortKeys(S) ==
    IF S = {} THEN <<>>
    ELSE LET m == CHOOSE x \in S : \A y \in S \ {x} : StrLess(x, y)
         IN  <<m>> \o SortKeys(S \ {m})

\* groupby('Type').agg(sum) for one group and one column.
GroupLast(recs, key, col) ==
    LET F[i \in 0..Len(recs)] ==
            IF i = 0 THEN Fin(0)
            ELSE IF recs[i].Type = key THEN recs[i][col] ELSE F[i-1]
    IN  F[Len(recs)]

GroupSum(recs, key, col) ==
    LET F[i \in 0..Len(recs)] ==
            IF i = 0 THEN Fin(0)
            ELSE IF recs[i].Type = key THEN NumAdd(F[i-1], recs[i][col])
            ELSE F[i-1]
    IN  F[Len(recs)]

\* Lines 77-80.
CompletionPct(design, built) ==
    NumClip(IF NumLess(Fin(0), design) THEN NumDivTimes100(built, design)
            ELSE Fin(0),
            Fin(0), Fin(100))

\* Lines 72-81: one row per distinct Type, in the sorted order of the keys.
KpiSummary(recs) ==
    LET keys == SortKeys({recs[i].Type : i \in 1..Len(recs)})
    IN  [g \in 1..Len(keys) |->
            LET design == GroupSum(recs, keys[g], "Design")
                built  == GroupSum(recs, keys[g], "AsBuilt")
            IN  [Type       |-> keys[g],
                 Design     |-> design,
                 AsBuilt    |-> built,
                 Completion |-> CompletionPct(design, built),
                 Left       |-> NumSub(design, built)]]

NoKpi == [status |-> "none", missing |-> <<>>, summary |-> <<>>]

\* status "missing": the warning of line 59 and None; "exception": a required
\* name is carried by two columns after stripping, df_processed[name] is then
\* a DataFrame and its .str raises AttributeError; "ok": the summary.
process_data(df) ==
    IF MissingColumns(df) # <<>>
    THEN [status |-> "missing", missing |-> MissingColumns(df), summary |-> <<>>]
    ELSE IF \E j \in 1..3 : ColumnCount(StrippedColumns(df), required_cols[j]) > 1
    THEN [status |-> "exception", missing |-> <<>>, summary |-> <<>>]
    ELSE [status |-> "ok", missing |-> <<>>, summary |-> KpiSummary(CleanRows(df))]

(***************************************************************************)
(* The sheets: what the CSV export can hold when it is fetched.            *)
(***************************************************************************)
Road == <<"R","o","a","d">>

Bridge == <<"B","r","i","d","g","e">>

Fiber == <<"F","i","b","e","r">>

T100 == <<"1","0","0">>

T40 == <<"4","0">>

T50 == <<"5","0">>

T10 == <<"1","0">>

T30 == <<"3","0">>

T0 == <<"0">>

T5 == <<"5">>

TInf == <<"i","n","f">>

HeaderTexts == <<TypeName, DesignName, AsBuiltName>>

SheetGood == << HeaderTexts, <<Road, T100, T40>>, <<Bridge, T0, T5>> >>

SheetNoHeader == << <<StrLower(TypeName), DesignName, AsBuiltName>>,
                    <<Road, T100, T40>> >>

SheetMissingDesign == << <<TypeName, AsBuiltName>>, <<Road, T40>> >>

SheetTypeOnly == << <<TypeName>>, <<Road>> >>

SheetHeaderOnly == << HeaderTexts >>

SheetSpacedNames == << <<TypeName, DesignName, <<" ">> \o DesignName, AsBuiltName>>,
                       <<Road, T100, T5, T40>> >>

SheetBlankAndRepeated ==
    << <<TypeName, <<>>, DesignName, DesignName, AsBuiltName, <<>> >>,
       <<Road, T5, T100, T5, T40, T5>> >>

SheetPreamble ==
    [i \in 1..6 |-> <<Fiber, <<>>, <<>> >>]
    \o << <<LastEdited, <<>>, <<>> >>,
          HeaderTexts,
          <<Road, T10, T30>>,
          <<Fiber, TInf, TInf>> >>

SampleSheets == { SheetGood, SheetNoHeader, SheetMissingDesign, SheetTypeOnly,
                  SheetHeaderOnly, SheetSpacedNames, SheetBlankAndRepeated,
                  SheetPreamble }

(***************************************************************************)
(* The script (lines 85-217) and the cache of load_data (lines 34-48).     *)
(***************************************************************************)
SheetNames == {"RDOF", "Smyrna"}

SHEET_GIDS == [n \in SheetNames |-> IF n = "RDOF" THEN "0" ELSE "YOUR_GID_HERE"]

Gids == {SHEET_GIDS[n] : n \in SheetNames}

TTL == 300

NoEntry == [has |-> FALSE, frame |-> NoneFrame, at |-> 0]

NoTotals == [total_design |-> Fin(0), total_as_built |-> Fin(0),
             total_left |-> Fin(0), overall_completion |-> Fin(0)]

Report(kind) == [kind |-> kind, cols |-> <<>>]

\* st.cache_data(ttl=300): an entry is served while it is younger than ttl.
CacheHit(g) == cache[g].has /\ now - cache[g].at < TTL

Init ==
    /\ now = 0
    /\ cache = [g \in Gids |-> NoEntry]
    /\ pc = "load"
    /\ selected_sheet_name = "RDOF"
    /\ raw_dataframe = NoneFrame
    /\ dataframe = NoFrame
    /\ df_processed = <<>>
    /\ kpi_data = NoKpi
    /\ selected_types = {}
    /\ totals = NoTotals
    /\ reports = {}
    /\ fetched = FALSE
    /\ loaded_at = 0
    /\ last_clear = 0
    /\ type_cells = <<>>
    /\ type_names = <<>>

\* A new run of the script starts: nothing of the last run is kept but the
\* cache and the widget state.
StartRun ==
    /\ pc' = "load"
    /\ raw_dataframe' = NoneFrame
    /\ dataframe' = NoFrame
    /\ df_processed' = <<>>
    /\ kpi_data' = NoKpi
    /\ selected_types' = {}
    /\ totals' = NoTotals
    /\ reports' = {}
    /\ fetched' = FALSE

Idle == pc \in {"done", "crashed"}

\* Time passes between two runs.
Tick ==
    /\ Idle
    /\ now + TickStep <= MaxTime
    /\ now' = now + TickStep
    /\ UNCHANGED <<cache, pc, selected_sheet_name, raw_dataframe, dataframe,
                   df_processed, kpi_data, selected_types, totals, reports,
                   fetched, loaded_at, last_clear, type_cells, type_names>>

\* Line 89: another sheet is chosen in the selectbox; the script reruns.
SelectSheet(n) ==
    /\ Idle
    /\ n # selected_sheet_name
    /\ selected_sheet_name' = n
    /\ StartRun
    /\ UNCHANGED <<now, cache, loaded_at, last_clear, type_cells, type_names>>

\* Lines 92-94: the button clears the cache of every sheet and reruns.
RefreshData ==
    /\ Idle
    /\ cache' = [g \in Gids |-> NoEntry]
    /\ last_clear' = now
    /\ StartRun
    /\ UNCHANGED <<now, selected_sheet_name, loaded_at, type_cells, type_names>>

\* Any other interaction (the multiselect) reruns the script.
Rerun ==
    /\ Idle
    /\ StartRun
    /\ UNCHANGED <<now, cache, selected_sheet_name, loaded_at, last_clear,
                   type_cells, type_names>>

\* Lines 97-99 and 216-217 with load_data (lines 34-48): a cached value is
\* returned while the entry lives, otherwise the sheet is fetched; a failed
\* fetch is caught and None returned, and whatever load_data returns is what
\* the cache stores.
LoadData ==
    /\ pc = "load"
    /\ LET g == SHEET_GIDS[selected_sheet_name]
       IN  \/ /\ CacheHit(g)
              /\ raw_dataframe' = cache[g].frame
              /\ fetched' = FALSE
              /\ UNCHANGED cache
           \/ /\ ~CacheHit(g)
              /\ \E result \in {NoneFrame} \cup {ReadCsv(t) : t \in SampleSheets} :
                    /\ raw_dataframe' = result
                    /\ cache' = [cache EXCEPT ![g] =
                                    [has |-> TRUE, frame |-> result, at |-> now]]
              /\ fetched' = TRUE
    /\ loaded_at' = now
    /\ IF raw_dataframe'.ok
       THEN pc' = "header" /\ reports' = reports
       ELSE pc' = "done" /\
            reports' = reports \cup {Report("fetch_error"), Report("no_data")}
    /\ UNCHANGED <<now, selected_sheet_name, dataframe, df_processed, kpi_data,
                   selected_types, totals, last_clear, type_cells, type_names>>

\* Lines 101-124: the 'last updated' cell A7 and the header row.
LocateHeader ==
    /\ pc = "header"
    /\ dataframe' = ResolveHeader(raw_dataframe)
    /\ reports' = reports
          \cup (IF Len(raw_dataframe.rows) < 7
                THEN {Report("no_last_updated")} ELSE {})
          \cup (IF dataframe'.ok THEN {} ELSE {Report("no_header")})
    /\ pc' = IF dataframe'.ok THEN "process" ELSE "done"
    /\ UNCHANGED <<now, cache, selected_sheet_name, raw_dataframe, df_processed,
                   kpi_data, selected_types, totals, fetched, loaded_at,
                   last_clear, type_cells, type_names>>

\* Lines 126-129: process_data.
ProcessData ==
    /\ pc = "process"
    /\ kpi_data' = process_data(dataframe)
    /\ df_processed' = IF kpi_data'.status = "ok" THEN CleanRows(dataframe) ELSE <<>>
    /\ reports' = reports
          \cup (IF kpi_data'.status = "missing"
                THEN {[kind |-> "missing_columns", cols |-> kpi_data'.missing]}
                ELSE {})
    /\ pc' = CASE kpi_data'.status = "ok" -> "kpis"
               [] kpi_data'.status = "missing" -> "raw"
               [] OTHER -> "crashed"
    /\ UNCHANGED <<now, cache, selected_sheet_name, raw_dataframe, dataframe,
                   selected_types, totals, fetched, loaded_at, last_clear,
                   type_cells, type_names>>

SummaryTypes(summary) == {summary[i].Type : i \in 1..Len(summary)}

\* Series.sum() of one column over the rows of the selected types.
TotalOf(summary, sel, col) ==
    LET F[i \in 0..Len(summary)] ==
            IF i = 0 THEN Fin(0)
            ELSE IF summary[i].Type \in sel THEN NumAdd(F[i-1], summary[i][col])
            ELSE F[i-1]
    IN  F[Len(summary)]

\* Line 147.
OverallCompletion(total_as_built, total_design) ==
    IF NumLess(Fin(0), total_design)
    THEN NumDivTimes100(total_as_built, total_design)
    ELSE Fin(0)

\* Lines 130-208: the types selected in the multiselect, the four metrics, and
\* the cards; int() of a NaN 'Completion %' in st.progress raises ValueError.
HighLevelKPIs ==
    /\ pc = "kpis"
    /\ \E sel \in SUBSET SummaryTypes(kpi_data.summary) :
          /\ selected_types' = sel
          /\ LET td == TotalOf(kpi_data.summary, sel, "Design")
                 tb == TotalOf(kpi_data.summary, sel, "AsBuilt")
                 tl == TotalOf(kpi_data.summary, sel, "Left")
             IN  totals' = [total_design |-> td, total_as_built |-> tb,
                            total_left |-> tl,
                            overall_completion |-> OverallCompletion(tb, td)]
          /\ pc' = IF \E i \in 1..Len(kpi_data.summary) :
                         /\ kpi_data.summary[i].Type \in sel
                         /\ kpi_data.summary[i].Completion.k = "nan"
                   THEN "crashed" ELSE "raw"
    /\ UNCHANGED <<now, cache, selected_sheet_name, raw_dataframe, dataframe,
                   df_processed, kpi_data, reports, fetched, loaded_at,
                   last_clear, type_cells, type_names>>

\* Lines 210-215: the raw data table.
RawDataTable ==
    /\ pc = "raw"
    /\ pc' = "done"
    /\ UNCHANGED <<now, cache, selected_sheet_name, raw_dataframe, dataframe,
                   df_processed, kpi_data, selected_types, totals, reports,
                   fetched, loaded_at, last_clear, type_cells, type_names>>

Next ==
    \/ Tick
    \/ \E n \in SheetNames : SelectSheet(n)
    \/ RefreshData
    \/ Rerun
    \/ LoadData
    \/ LocateHeader
    \/ ProcessData
    \/ HighLevelKPIs
    \/ RawDataTable

Spec == Init /\ [][Next]_vars

(***************************************************************************)
(* Specification of process_data and the metrics alone: the data frame has *)
(* the three required columns and up to MaxRows data rows, each one of the *)
(* sample rows below.                                                      *)
(***************************************************************************)
SampleRows ==
    { <<Road, T100, T40>>,
      <<StrLower(Road) \o <<":">>, T50, T10>>,
      <<Bridge, T0, T5>>,
      <<<<" ">> \o StrLower(Road) \o <<" ">>, T10, T30>>,
      <<<<"R","O","A","D",":">>, <<"N","/","A">>, <<"1",",","0","0","0">>>>,
      <<<<>>, T5, T5>>,
      <<<<" ">>, T5, T10>>,
      <<StrLower(LastEdited) \o <<":">>, T30, T30>>,
      <<Fiber, TInf, TInf>>,
      <<Fiber, <<"-">> \o TInf, <<"x">>>>,
      <<<<"B","r","i",":","d","g","e">>, <<"-","1","0">>, <<"-","5">>>> }

RowSeqs == UNION {[1..n -> SampleRows] : n \in 0..MaxRows}

InitProcess ==
    \E rows \in RowSeqs :
        /\ raw_dataframe = ReadCsv(<<HeaderTexts>> \o rows)
        /\ dataframe = ResolveHeader(raw_dataframe)
        /\ now = 0
        /\ cache = [g \in Gids |->
                      IF g = SHEET_GIDS["RDOF"]
                      THEN [has |-> TRUE, frame |-> raw_dataframe, at |-> 0]
                      ELSE NoEntry]
        /\ pc = "process"
        /\ selected_sheet_name = "RDOF"
        /\ df_processed = <<>>
        /\ kpi_data = NoKpi
        /\ selected_types = {}
        /\ totals = NoTotals
        /\ reports = {Report("no_last_updated")}
        /\ fetched = TRUE
        /\ loaded_at = 0
        /\ last_clear = 0
        /\ type_cells = <<>>
        /\ type_names = <<>>

NextProcess == ProcessData \/ HighLevelKPIs

SpecProcess == InitProcess /\ [][NextProcess]_vars

(***************************************************************************)
(* Specification of the category-name normalisation alone: two Type cells  *)
(* over a small alphabet are normalised.                                   *)
(***************************************************************************)
NormAlphabet == {"a", "A", "b", " ", ":"}

RECURSIVE StringsUpTo(_)
StringsUpTo(n) ==
    IF n = 0 THEN {<<>>}
    ELSE LET shorter == StringsUpTo(n-1)
         IN  shorter \cup {Append(s, c) : s \in shorter, c \in NormAlphabet}

TypeTexts == StringsUpTo(MaxLen) \ NAValues

InitNorm ==
    /\ type_cells \in TypeTexts \X TypeTexts
    /\ type_names = <<>>
    /\ pc = "normalize"
    /\ now = 0
    /\ cache = [g \in Gids |-> NoEntry]
    /\ selected_sheet_name = "RDOF"
    /\ raw_dataframe = NoneFrame
    /\ dataframe = NoFrame
    /\ df_processed = <<>>
    /\ kpi_data = NoKpi
    /\ selected_types = {}
    /\ totals = NoTotals
    /\ reports = {}
    /\ fetched = FALSE
    /\ loaded_at = 0
    /\ last_clear = 0

\* Line 63 applied to the two cells.
NormalizeTypes ==
    /\ pc = "normalize"
    /\ type_names' = [i \in 1..2 |-> NormalizeType(type_cells[i])]
    /\ pc' = "normalized"
    /\ UNCHANGED <<now, cache, selected_sheet_name, raw_dataframe, dataframe,
                   df_processed, kpi_data, selected_types, totals, reports,
                   fetched, loaded_at, last_clear, type_cells>>

NextNorm == NormalizeTypes

SpecNorm == InitNorm /\ [][NextNorm]_vars

(***************************************************************************)
(* Properties.  The operators of this section state what is claimed; they  *)
(* do not model code.                                                      *)
(***************************************************************************)
Summary == kpi_data.summary

InRange0To100(x) == x.k = "fin" /\ 0 <= x.n /\ x.n <= 100 * x.d

TypeCellOf(rec) ==
    dataframe.rows[rec.index][ColumnIndex(dataframe.columns, TypeName)]

DesignCellOf(rec) ==
    dataframe.rows[rec.index][ColumnIndex(StrippedColumns(dataframe), DesignName)]

AsBuiltCellOf(rec) ==
    dataframe.rows[rec.index][ColumnIndex(StrippedColumns(dataframe), AsBuiltName)]

DropTrailingColon(s) ==
    IF s # <<>> /\ s[Len(s)] = ":" THEN SubSeq(s, 1, Len(s) - 1) ELSE s

\* Two texts differ only by letter case, surrounding whitespace or a trailing
\* colon exactly when they are equal once lower-cased and rid of them.
CaseSpaceColonFolded(s) == StrLower(StrStrip(DropTrailingColon(StrStrip(s))))

SameUpToCaseSpaceColon(a, b) == CaseSpaceColonFolded(a) = CaseSpaceColonFolded(b)

\* C1: every row of the summary has a 'Completion %' in [0,100]; it is 0 when
\* the summed Design is 0 and As Built / Design * 100 clamped to [0,100]
\* otherwise.
C1_CompletionClamped ==
    kpi_data.status = "ok" =>
        \A i \in 1..Len(Summary) :
            LET e == Summary[i]
            IN  /\ InRange0To100(e.Completion)
                /\ e.Design = Fin(0) => e.Completion = Fin(0)
                /\ e.Design # Fin(0) =>
                      e.Completion = NumClip(NumDivTimes100(e.AsBuilt, e.Design),
                                             Fin(0), Fin(100))

\* C2: rows whose Type cells differ only by case, surrounding whitespace or a
\* trailing colon get the same category, every category of a retained row is
\* the name of exactly one summary row, and no name occurs in two rows.
C2_GroupingInsensitive ==
    kpi_data.status = "ok" =>
        /\ \A i, j \in 1..Len(Summary) :
              Summary[i].Type = Summary[j].Type => i = j
        /\ \A p \in 1..Len(df_processed) :
              Cardinality({i \in 1..Len(Summary) :
                              Summary[i].Type = df_processed[p].Type}) = 1
        /\ LET text == [p \in 1..Len(df_processed) |->
                            CaseSpaceColonFolded(TypeCellOf(df_processed[p]).s)]
           IN  \A p, q \in 1..Len(df_processed) :
                  text[p] = text[q] => df_processed[p].Type = df_processed[q].Type

C2_Witness ==
    /\ kpi_data.status = "ok"
    /\ Len(Summary) = 1
    /\ \E p, q \in 1..Len(df_processed) :
          /\ TypeCellOf(df_processed[p]).s = Road
          /\ TypeCellOf(df_processed[q]).s = <<"R","O","A","D",":">>
    /\ \E p \in 1..Len(df_processed) :
          TypeCellOf(df_processed[p]).s = <<" ","r","o","a","d"," ">>

\* The name the original statement of C3 describes: a trailing colon is
\* stripped, then whitespace trimmed, then the text title-cased.
TrailingColonName(s) == StrTitle(StrStrip(DropTrailingColon(s)))

\* C3 (as stated): the category name is the cell with a trailing colon
\* stripped, trimmed and title-cased, and cells that differ in more than case,
\* surrounding whitespace or a trailing colon get distinct names.
C3_TrailingColonOnly ==
    pc = "normalized" =>
        /\ \A i \in 1..2 : type_names[i] = TrailingColonName(type_cells[i])
        /\ ~SameUpToCaseSpaceColon(type_cells[1], type_cells[2])
              => type_names[1] # type_names[2]

IsTitleCased(s) ==
    \A i \in 1..Len(s) :
        /\ IsUpperChar(s[i]) => (i = 1 \/ ~IsCased(s[i-1]))
        /\ IsLowerChar(s[i]) => (i > 1 /\ IsCased(s[i-1]))

\* C3 (amended): the category name holds no colon at all, has no surrounding
\* whitespace, is title-cased, and is, case aside, the cell with every colon
\* removed and then trimmed; two cells get the same name exactly when they are
\* equal, case aside, after every colon is removed and the rest is trimmed.
C3_EveryColonRemoved ==
    pc = "normalized" =>
        /\ \A i \in 1..2 :
              LET name == type_names[i]
              IN  /\ \A k \in 1..Len(name) : name[k] # ":"
                  /\ name # <<>> => ~IsSpace(name[1]) /\ ~IsSpace(name[Len(name)])
                  /\ IsTitleCased(name)
                  /\ StrLower(name)
                       = StrLower(StrStrip(StrRemoveAll(type_cells[i], ":")))
        /\ (type_names[1] = type_names[2])
              <=> (StrLower(StrStrip(StrRemoveAll(type_cells[1], ":")))
                     = StrLower(StrStrip(StrRemoveAll(type_cells[2], ":"))))

C3_Witness ==
    /\ pc = "normalized"
    /\ type_cells = << <<"a",":","a">>, <<"a","a">> >>
    /\ type_names = << <<"A","a">>, <<"A","a">> >>

\* A Type text that is empty once normalised: only whitespace and colons.
IsBlankType(s) == \A k \in 1..Len(s) : s[k] \in {" ", ":"}

\* C4: no summary row has the empty category name, and rows whose category
\* is empty are not among the rows that are aggregated.
C4_NoEmptyCategory ==
    kpi_data.status = "ok" =>
        /\ \A i \in 1..Len(Summary) : Summary[i].Type # <<>>
        /\ \A p \in 1..Len(df_processed) :
              ~IsBlankType(TypeCellOf(df_processed[p]).s)

IsIntegerText(t) ==
    LET body == IF t # <<>> /\ t[1] \in {"-", "+"} THEN Tail(t) ELSE t
    IN  body # <<>> /\ \A k \in 1..Len(body) : IsDigit(body[k])

IntegerValue(t) ==
    IF t[1] = "-" THEN -DigitsVal(Tail(t))
    ELSE IF t[1] = "+" THEN DigitsVal(Tail(t))
    ELSE DigitsVal(t)

\* The number C5 describes: the cell without its commas when that is a number,
\* 0 when the cell is missing, empty or not a number.
DefinedNumber(cell) ==
    LET t == IF cell.na THEN <<>> ELSE StrRemoveAll(cell.s, ",")
    IN  IF IsIntegerText(t) THEN Fin(IntegerValue(t)) ELSE Fin(0)

\* C5: every cleaned Design and As Built value is the cell's number with the
\* commas removed, or 0 for an empty, missing or unparsable cell, so that
\* every value that is summed is a defined (finite) number.
C5_CleanedValuesDefined ==
    \A p \in 1..Len(df_processed) :
        /\ df_processed[p].Design = DefinedNumber(DesignCellOf(df_processed[p]))
        /\ df_processed[p].AsBuilt = DefinedNumber(AsBuiltCellOf(df_processed[p]))

RECURSIVE SumOver(_, _, _)
SumOver(recs, idx, col) ==
    IF idx = {} THEN Fin(0)
    ELSE LET i == CHOOSE i \in idx : TRUE
         IN  NumAdd(recs[i][col], SumOver(recs, idx \ {i}, col))

\* Design minus As Built, not clamped, by cases.
Remaining(d, b) ==
    IF d.k = "nan" \/ b.k = "nan" THEN NaN
    ELSE IF d.k = "fin" /\ b.k = "fin"
         THEN Rat(d.n * b.d - b.n * d.d, d.d * b.d)
    ELSE IF d.k = "inf" /\ b.k = "inf"
         THEN (IF d.n = b.n THEN NaN ELSE d)
    ELSE IF d.k = "inf" THEN d
    ELSE Inf(-b.n)

ExampleRows == << <<Road, T100, T40>>,
                  <<StrLower(Road) \o <<":">>, T50, T10>>,
                  <<Bridge, T0, T5>> >>

ExampleSummary ==
    { [Type |-> Road, Design |-> Fin(150), AsBuilt |-> Fin(50),
       Completion |-> [k |-> "fin", n |-> 100, d |-> 3], Left |-> Fin(100)],
      [Type |-> Bridge, Design |-> Fin(0), AsBuilt |-> Fin(5),
       Completion |-> Fin(0), Left |-> Fin(-5)] }

\* C6: each summary row's Design and As Built are the sums of the cleaned
\* values of exactly the retained rows of its category, its 'Left to be
\* Built' is Design minus As Built without clamping, and the rows
\* (Road,100,40), (road:,50,10), (Bridge,0,5) give Road 150/50/100 and
\* Bridge 0/5/-5.
C6_SumsAndRemaining ==
    kpi_data.status = "ok" =>
        /\ {Summary[i].Type : i \in 1..Len(Summary)}
              = {df_processed[p].Type : p \in 1..Len(df_processed)}
        /\ \A i \in 1..Len(Summary) :
              LET e     == Summary[i]
                  group == {p \in 1..Len(df_processed) :
                               df_processed[p].Type = e.Type}
              IN  /\ e.Design = SumOver(df_processed, group, "Design")
                  /\ e.AsBuilt = SumOver(df_processed, group, "AsBuilt")
                  /\ e.Left = Remaining(e.Design, e.AsBuilt)
        /\ dataframe.rows = ReadCsv(ExampleRows).rows
              => {Summary[i] : i \in 1..Len(Summary)} = ExampleSummary

C6_Witness ==
    /\ kpi_data.status = "ok"
    /\ dataframe.rows = ReadCsv(ExampleRows).rows
    /\ \E i \in 1..Len(Summary) :
          Summary[i].Type = Bridge /\ Summary[i].Left = Fin(-5)
    /\ \E i \in 1..Len(Summary) :
          Summary[i].Type = Road /\ Summary[i].Design = Fin(150)

\* The three steps, read off the fetched table.
FetchSucceeded == raw_dataframe.ok

HeaderLocated ==
    \E i \in 1..Len(raw_dataframe.rows) :
        raw_dataframe.rows[i][1] = StrCell(TypeName)

AbsentColumns ==
    {c \in {TypeName, DesignName, AsBuiltName} :
        \A j \in 1..Len(dataframe.columns) : StrStrip(dataframe.columns[j]) # c}

KpisProduced ==
    pc = "kpis" \/ kpi_data.status = "ok" \/ totals # NoTotals
        \/ selected_types # {}

\* C7: KPIs are produced only when the fetch succeeded, the header row was
\* found and the three columns are present; a run in which one of the three
\* fails reports that condition (the missing-columns warning names exactly
\* the missing columns), produces no KPI summary and runs to completion.
C7_KpisOnlyAfterAllSteps ==
    /\ KpisProduced => FetchSucceeded /\ HeaderLocated /\ AbsentColumns = {}
    /\ pc # "load" /\ ~FetchSucceeded =>
          /\ pc = "done"
          /\ Report("no_data") \in reports
          /\ ~KpisProduced
    /\ pc \notin {"load", "header"} /\ FetchSucceeded /\ ~HeaderLocated =>
          /\ pc = "done"
          /\ Report("no_header") \in reports
          /\ ~KpisProduced
    /\ pc \notin {"load", "header", "process"} /\ FetchSucceeded
          /\ HeaderLocated /\ AbsentColumns # {} =>
          /\ pc \in {"raw", "done"}
          /\ \E r \in reports :
                /\ r.kind = "missing_columns"
                /\ {r.cols[k] : k \in 1..Len(r.cols)} = AbsentColumns
                /\ Len(r.cols) = Cardinality(AbsentColumns)
          /\ ~KpisProduced

C7_Witness ==
    /\ pc = "done"
    /\ FetchSucceeded
    /\ [kind |-> "missing_columns", cols |-> <<DesignName, AsBuiltName>>]
          \in reports
    /\ kpi_data.summary = <<>>

\* C8: header resolution followed by process_data never ends in an uncaught
\* exception, and a table with a header and no data rows gives an empty
\* summary.
C8_PipelineTotal ==
    /\ kpi_data.status # "exception"
    /\ (dataframe.ok /\ dataframe.rows = <<>> /\ kpi_data.status = "ok")
          => Summary = <<>>

\* C9: a table is served from the cache only while the entry is at most 300
\* seconds old and no refresh has happened since it was stored, a load
\* otherwise fetches, and a cached entry is always a fetched table.
C9_CacheServesFetchedTables ==
    /\ \A g \in Gids : cache[g].has => cache[g].frame.ok
    /\ pc # "load" =>
          LET e == cache[SHEET_GIDS[selected_sheet_name]]
          IN  /\ e.has
              /\ e.frame = raw_dataframe
              /\ fetched => e.at = loaded_at
              /\ ~fetched => loaded_at - e.at <= TTL /\ last_clear <= e.at

\* C10: the 'Overall Completion' shown is total As Built / total Design * 100
\* over the selected types clamped to [0,100], and 0 when the selected total
\* Design is 0.
C10_OverallClamped ==
    (pc \in {"raw", "done"} /\ kpi_data.status = "ok") =>
        /\ InRange0To100(totals.overall_completion)
        /\ totals.total_design = Fin(0) => totals.overall_completion = Fin(0)
        /\ totals.total_design # Fin(0) =>
              totals.overall_completion
                 = NumClip(NumDivTimes100(totals.total_as_built,
                                          totals.total_design),
                           Fin(0), Fin(100))

====
